---- MODULE Spec2Model ----
(***************************************************************************)
(* A model of jsonrpc.py: the JSON-RPC 1.1 service (ServiceBase, Service)  *)
(* and its client (ServiceProxy).                                          *)
(*                                                                         *)
(* Python values are tagged records; JSON text is a separate tagged        *)
(* document type, so that simplejson.dumps / simplejson.loads are real     *)
(* conversions: a tuple is written as an array and read back as a list,    *)
(* and an object JSON cannot represent makes dumps raise TypeError.        *)
(* A Python call that can raise yields a record with a "raised" field.     *)
(***************************************************************************)
EXTENDS Integers, Sequences, FiniteSets, TLC

VARIABLES
    methods,          \* ServiceBase.methods: the registry, name -> handler
    auth_func,        \* ServiceBase.auth_func
    show_exceptions,  \* ServiceBase.show_exceptions
    request,          \* the request of the last service operation, if it took one
    outcome,          \* what the last service operation returned or raised
    events,           \* the hook / handler invocations of that operation
    smd,              \* ServiceProxy.smd
    proxy_methods,    \* ServiceProxy.methods
    call_id,          \* ServiceProxy.call_id
    wrapped,          \* the callable the last __getattr__ returned
    sent,             \* ids of the requests the proxy posted, in order
    client,           \* result of the last proxy operation
    invokes,          \* number of call_method calls made on the proxy
    fetches,          \* number of description fetches the proxy issued
    populated,        \* number of times get_smd extended ServiceProxy.methods
    explicit,         \* whether get_smd was ever called explicitly
    callers           \* the callers sharing the proxy: where each one is in
                      \* its call, and the values it holds in local names

server_vars == <<methods, auth_func, show_exceptions>>
served_vars == <<request, outcome, events>>
proxy_vars == <<smd, proxy_methods, call_id, wrapped, sent, client,
                invokes, fetches, populated, explicit, callers>>
vars == <<methods, auth_func, show_exceptions, request, outcome, events,
          smd, proxy_methods, call_id, wrapped, sent, client,
          invokes, fetches, populated, explicit, callers>>

(***************************************************************************)
(* Python values.                                                          *)
(***************************************************************************)
PyInt(n) == [t |-> "int", n |-> n, s |-> "", items |-> <<>>]
PyStr(s) == [t |-> "str", n |-> 0, s |-> s, items |-> <<>>]
PyNone == [t |-> "none", n |-> 0, s |-> "", items |-> <<>>]
PyList(items) == [t |-> "list", n |-> 0, s |-> "", items |-> items]
PyTuple(items) == [t |-> "tuple", n |-> 0, s |-> "", items |-> items]
\* an instance of a class simplejson has no encoding for (a datetime, say)
PyObject == [t |-> "object", n |-> 0, s |-> "<object>", items |-> <<>>]
PyDict(members) == [t |-> "dict", members |-> members]

(***************************************************************************)
(* JSON text, as the document it spells.                                   *)
(***************************************************************************)
JNum(n) == [j |-> "number", n |-> n, s |-> "", items |-> <<>>]
JStr(s) == [j |-> "string", n |-> 0, s |-> s, items |-> <<>>]
JNull == [j |-> "null", n |-> 0, s |-> "", items |-> <<>>]
JArr(items) == [j |-> "array", n |-> 0, s |-> "", items |-> items]
JObj(members) == [j |-> "object", members |-> members]
\* bytes that are not JSON text at all
NotJson == [j |-> "invalid"]

Raise(etype, evalue) == [raised |-> TRUE, etype |-> etype, evalue |-> evalue]
Return(value) == [raised |-> FALSE, value |-> value]

\* str(n), for the small numbers that appear in messages
Digits == <<"0", "1", "2", "3", "4", "5", "6", "7", "8", "9">>
IntStr(n) == IF n \in 0..9 THEN Digits[n + 1] ELSE "many"

RECURSIVE Serializable(_)
Serializable(v) ==
    CASE v.t = "object" -> FALSE
      [] v.t = "dict" -> \A k \in DOMAIN v.members : Serializable(v.members[k])
      [] v.t \in {"list", "tuple"} ->
            \A i \in 1..Len(v.items) : Serializable(v.items[i])
      [] OTHER -> TRUE

RECURSIVE EncodeAll(_)
RECURSIVE DecodeAll(_)

RECURSIVE Encode(_)
Encode(v) ==
    CASE v.t = "int" -> JNum(v.n)
      [] v.t = "str" -> JStr(v.s)
      [] v.t = "none" -> JNull
      [] v.t = "list" -> JArr(EncodeAll(v.items))
      [] v.t = "tuple" -> JArr(EncodeAll(v.items))
      [] v.t = "dict" -> JObj([k \in DOMAIN v.members |-> Encode(v.members[k])])

EncodeAll(items) ==
    IF items = <<>> THEN <<>>
    ELSE <<Encode(Head(items))>> \o EncodeAll(Tail(items))

\* simplejson.dumps
dumps(data) ==
    IF Serializable(data)
    THEN Return(Encode(data))
    ELSE Raise("TypeError", "is not JSON serializable")

RECURSIVE Decode(_)
Decode(doc) ==
    CASE doc.j = "number" -> PyInt(doc.n)
      [] doc.j = "string" -> PyStr(doc.s)
      [] doc.j = "null" -> PyNone
      [] doc.j = "array" -> PyList(DecodeAll(doc.items))
      [] doc.j = "object" -> PyDict([k \in DOMAIN doc.members |-> Decode(doc.members[k])])

DecodeAll(items) ==
    IF items = <<>> THEN <<>>
    ELSE <<Decode(Head(items))>> \o DecodeAll(Tail(items))

\* simplejson.loads
loads(text) ==
    IF text.j = "invalid"
    THEN Raise("ValueError", "No JSON object could be decoded")
    ELSE Return(Decode(text))

\* '%s' % value
Format(v) ==
    CASE v.t = "int" -> IntStr(v.n)
      [] v.t = "str" -> v.s
      [] v.t = "none" -> "None"
      [] OTHER -> "<value>"

(***************************************************************************)
(* ServiceBase                                                             *)
(***************************************************************************)
to_json(data) == dumps(data)

JsonRpcVersion == "1.1"
ErrorName == "JsonRpcError"
ErrorCode == 100

get_response(id, result) ==
    PyDict([version |-> PyStr(JsonRpcVersion),
            id |-> id,
            result |-> result,
            error |-> PyNone])

\* an error envelope that also carries a null result
get_error_with_result(id, code, message) ==
    PyDict([id |-> id,
            version |-> PyStr(JsonRpcVersion),
            result |-> PyNone,
            error |-> PyDict([name |-> PyStr(ErrorName),
                              code |-> PyInt(code),
                              message |-> PyStr(message)])])

get_error(id, code, message) ==
    PyDict([id |-> id,
            version |-> PyStr(JsonRpcVersion),
            error |-> PyDict([name |-> PyStr(ErrorName),
                              code |-> PyInt(code),
                              message |-> PyStr(message)])])

\* a registration that keeps the handler a name is already bound to
add_method_keep_first(registry, method_name, method) ==
    [n \in DOMAIN registry \cup {method_name} |->
        IF n \in DOMAIN registry THEN registry[n] ELSE method]

\* the registry is a function from the registered names to their handlers
add_method(registry, method_name, method) ==
    [n \in DOMAIN registry \cup {method_name} |->
        IF n = method_name THEN method ELSE registry[n]]

NoMethod == [fn |-> "None", args |-> <<>>]

\* a lookup that falls back to some registered handler for an unknown name
get_method_fallback(registry, method_name) ==
    IF method_name \in DOMAIN registry THEN registry[method_name]
    ELSE IF DOMAIN registry # {}
    THEN registry[CHOOSE n \in DOMAIN registry : TRUE]
    ELSE NoMethod

get_method(registry, method_name) ==
    IF method_name \in DOMAIN registry THEN registry[method_name] ELSE NoMethod

DoesNotExist(method_name) == "method \"" \o method_name \o "\" does not exist"

(***************************************************************************)
(* The authorization hook.  auth_func is None or a function of the request,*)
(* the method name and the params; HookReturn is what each hook of the     *)
(* model returns.                                                          *)
(***************************************************************************)
NoHook == "None"
AuthPair(a, msg) == [t |-> "tuple", b |-> TRUE, items |-> <<a, msg>>]
AuthTuple(items) == [t |-> "tuple", b |-> Len(items) > 0, items |-> items]
AuthBool(b) == [t |-> "bool", b |-> b, items |-> <<>>]
AuthNone == [t |-> "none", b |-> FALSE, items |-> <<>>]

\* bool(value)
Truthy(value) == value.b

Hooks == {"deny", "guard_add", "bare_true", "bare_false",
          "returns_none", "triple", "empty"}

HookReturn(hook, method_name, params) ==
    CASE hook = "deny" -> AuthPair(FALSE, "permission denied")
      [] hook = "guard_add" ->
            IF method_name = "add"
            THEN AuthPair(FALSE, "add is restricted") ELSE AuthPair(TRUE, "")
      [] hook = "bare_true" -> AuthBool(TRUE)
      [] hook = "bare_false" -> AuthBool(FALSE)
      [] hook = "returns_none" -> AuthNone
      [] hook = "triple" -> AuthTuple(<<FALSE, "permission denied", 0>>)
      [] hook = "empty" -> AuthTuple(<<>>)

\* auth, msg = auth: succeeds only on a sequence of exactly two items
Unpack2(value) ==
    CASE value.t # "tuple" -> Raise("TypeError", "object is not iterable")
      [] value.t = "tuple" /\ Len(value.items) # 2 ->
            Raise("ValueError", "wrong number of values to unpack")
      [] OTHER -> Return(value.items)

\* an authorization that drops the hook's own message
is_authorized_no_message(hook, req, method_name, params) ==
    IF hook # NoHook
    THEN LET auth == HookReturn(hook, method_name, params)
             pair == Unpack2(auth)
         IN  IF pair.raised
             THEN [auth |-> Truthy(auth), msg |-> DoesNotExist(method_name),
                   called |-> TRUE]
             ELSE [auth |-> pair.value[1], msg |-> DoesNotExist(method_name),
                   called |-> TRUE]
    ELSE [auth |-> TRUE, msg |-> "", called |-> FALSE]

\* an authorization that refuses every answer that is not a pair
is_authorized_pairs_only(hook, req, method_name, params) ==
    IF hook # NoHook
    THEN LET auth == HookReturn(hook, method_name, params)
             pair == Unpack2(auth)
         IN  IF pair.raised
             THEN [auth |-> FALSE, msg |-> DoesNotExist(method_name),
                   called |-> TRUE]
             ELSE [auth |-> pair.value[1], msg |-> pair.value[2], called |-> TRUE]
    ELSE [auth |-> TRUE, msg |-> "", called |-> FALSE]

\* returns the pair (auth, msg) with auth reduced to its truth value, which
\* is all process_request reads of it, and whether the hook was called
is_authorized(hook, req, method_name, params) ==
    IF hook # NoHook
    THEN LET auth == HookReturn(hook, method_name, params)
             pair == Unpack2(auth)
         IN  IF pair.raised
             THEN [auth |-> Truthy(auth), msg |-> DoesNotExist(method_name),
                   called |-> TRUE]
             ELSE [auth |-> pair.value[1], msg |-> pair.value[2], called |-> TRUE]
    ELSE [auth |-> TRUE, msg |-> "", called |-> FALSE]

(***************************************************************************)
(* Handlers: what add_method registers.  args are the declared parameter   *)
(* names; Body is what the function does once its arguments are bound.     *)
(***************************************************************************)
Handler(fn, args) == [fn |-> fn, args |-> args]
hAdd == Handler("add", <<"request", "a", "b">>)
hPair == Handler("pair", <<"request", "a", "b">>)
hNoop == Handler("noop", <<"request">>)
hNow == Handler("now", <<"request">>)
hBoom == Handler("boom", <<"request">>)
\* def forward(req, target, request): its first parameter receives the
\* request object under another name, and an RPC argument is named request
hForward == Handler("forward", <<"req", "target", "request">>)
Handlers == {hAdd, hPair, hNoop, hNow, hBoom, hForward}

Body(method, a) ==
    CASE method.fn = "add" -> Return(PyInt(a[1].n + a[2].n))
      [] method.fn = "pair" -> Return(PyTuple(<<a[1], a[2]>>))
      [] method.fn = "noop" -> Return(PyNone)
      [] method.fn = "now" -> Return(PyObject)
      [] method.fn = "boom" -> Raise("ValueError", "boom failed")
      [] method.fn = "forward" -> Return(a[2])

\* method(request, *params)
Invoke(method, req, params) ==
    IF params.t \notin {"list", "tuple"}
    THEN Raise("TypeError", method.fn \o "() argument after * must be a sequence")
    ELSE IF Len(params.items) + 1 # Len(method.args)
    THEN Raise("TypeError",
               method.fn \o "() takes exactly " \o IntStr(Len(method.args))
               \o " arguments (" \o IntStr(Len(params.items) + 1) \o " given)")
    ELSE Body(method, params.items)

\* data[key]
Subscript(data, key) ==
    IF data.t # "dict"
    THEN Raise("TypeError", "indices must be integers")
    ELSE IF key \notin DOMAIN data.members
    THEN Raise("KeyError", key)
    ELSE Return(data.members[key])

\* Lines 61-63: the three names are bound together, by one assignment, once
\* loads and all three subscripts have succeeded; otherwise none is bound.
ParseRequest(req) ==
    LET data == loads(req.raw_post_data)
        id == IF data.raised THEN data ELSE Subscript(data.value, "id")
        method_name == IF data.raised THEN data ELSE Subscript(data.value, "method")
        params == IF data.raised THEN data ELSE Subscript(data.value, "params")
    IN  IF data.raised \/ id.raised \/ method_name.raised \/ params.raised
        THEN [raised |-> TRUE, bound |-> {}]
        ELSE [raised |-> FALSE, bound |-> {"id", "method_name", "params"},
              id |-> id.value, method_name |-> method_name.value,
              params |-> params.value]

MalformedMessage == "Malformed JSON-RPC 1.1 request"
MaskedMessage == "An error occurred"

\* a message that masks the failure whatever show_exceptions says
failure_message_masked(show, result) == MaskedMessage

\* Lines 84-88: the message for a handler that raised
failure_message(show, result) ==
    IF show
    THEN result.etype \o ": " \o result.evalue
    ELSE MaskedMessage

HandlerEvent(method, result) == [op |-> "handler", fn |-> method.fn, result |-> result]
HookEvent(hook) == [op |-> "auth_func", fn |-> hook, result |-> Return(PyNone)]
\* Line 74: self.get_method(method_name)
LookupEvent(method_name) ==
    [op |-> "get_method", fn |-> method_name, result |-> Return(PyNone)]

Malformed100(id) == to_json(get_error(id, ErrorCode, MalformedMessage))

\* Lines 79-90: the handler has been called; hook_events are the calls made
\* before it
respond(show, id, hook_events, method, result) ==
    [result |-> to_json(IF ~result.raised
                        THEN get_response(id, result.value)
                        ELSE get_error(id, ErrorCode, failure_message(show, result))),
     events |-> hook_events \o <<HandlerEvent(method, result)>>]

\* Lines 75-80: the method has been looked up
resolved(show, req, id, method_name, params, hook_events, method) ==
    IF method = NoMethod
    THEN [result |-> to_json(get_error(id, ErrorCode, DoesNotExist(method_name))),
          events |-> hook_events]
    ELSE respond(show, id, hook_events, method, Invoke(method, req, params))

\* a dispatch that looks the method up first and answers for an unknown
\* name without asking the hook
authorized_after_lookup(registry, hook, show, req, id, method_name, params, authz) ==
    IF get_method(registry, method_name) = NoMethod
    THEN [result |-> to_json(get_error(id, ErrorCode, DoesNotExist(method_name))),
          events |-> <<LookupEvent(method_name)>>]
    ELSE IF ~authz.auth
    THEN [result |-> to_json(get_error(id, ErrorCode, authz.msg)),
          events |-> <<LookupEvent(method_name)>>
                     \o (IF authz.called THEN <<HookEvent(hook)>> ELSE <<>>)]
    ELSE resolved(show, req, id, method_name, params,
                  <<LookupEvent(method_name)>>
                  \o (IF authz.called THEN <<HookEvent(hook)>> ELSE <<>>),
                  get_method(registry, method_name))

\* Lines 70-74: the hook has answered
authorized(registry, hook, show, req, id, method_name, params, authz) ==
    IF ~authz.auth
    THEN [result |-> to_json(get_error(id, ErrorCode, authz.msg)),
          events |-> IF authz.called THEN <<HookEvent(hook)>> ELSE <<>>]
    ELSE resolved(show, req, id, method_name, params,
                  (IF authz.called THEN <<HookEvent(hook)>> ELSE <<>>)
                  \o <<LookupEvent(method_name)>>,
                  get_method(registry, method_name))

\* Lines 64-69: the try block is over; the blanket except reads the local id
parsed_request(registry, hook, show, req, parsed) ==
    IF parsed.raised
    THEN IF "id" \in parsed.bound
         THEN [result |-> Malformed100(parsed.id), events |-> <<>>]
         ELSE [result |-> Raise("UnboundLocalError",
                                "local variable 'id' referenced before assignment"),
               events |-> <<>>]
    ELSE authorized(registry, hook, show, req, parsed.id,
                    Format(parsed.method_name), parsed.params,
                    is_authorized(hook, req, Format(parsed.method_name),
                                  parsed.params))

\* ServiceBase.process_request: [result |-> what it returns or raises,
\*                               events |-> the hook and handler calls it made]
process_request(registry, hook, show, req) ==
    parsed_request(registry, hook, show, req, ParseRequest(req))

RECURSIVE SetToSeq(_)
SetToSeq(S) ==
    IF S = {} THEN <<>>
    ELSE LET x == CHOOSE y \in S : TRUE IN <<x>> \o SetToSeq(S \ {x})

\* a listing that yields every registered name twice
list_methods_twice(registry) ==
    SetToSeq(DOMAIN registry) \o SetToSeq(DOMAIN registry)

\* self.methods.keys(): every registered name once, in the dictionary's order
list_methods(registry) == SetToSeq(DOMAIN registry)

ContextNames == {"self", "request"}

\* [ {'name': val} for val in sig.args if val not in ('self', 'request') ]
Parameters(args) ==
    LET keep == SelectSeq(args, LAMBDA val : val \notin ContextNames)
    IN  [i \in 1..Len(keep) |-> PyDict([name |-> PyStr(keep[i])])]

describe(registry, method_name) ==
    PyDict([name |-> PyStr(method_name),
            parameters |-> PyList(Parameters(get_method(registry, method_name).args))])

\* ServiceBase.get_smd
get_smd(registry, url) ==
    LET names == list_methods(registry)
    IN  to_json(PyDict([serviceType |-> PyStr("JSON-RPC"),
                        serviceURL |-> PyStr(url),
                        methods |-> PyList([i \in 1..Len(names) |->
                                               describe(registry, names[i])])]))

(***************************************************************************)
(* Service                                                                 *)
(***************************************************************************)
HttpRequest(method, raw, path) ==
    [method |-> method, raw_post_data |-> raw, full_path |-> path]

\* HttpResponse(content, mimetype=...): an exception raised while computing
\* the content leaves __call__ before the response is built
HttpResponse(content) ==
    IF content.raised THEN content
    ELSE Return([content |-> content.value, mimetype |-> "application/json"])

Posted(r) == [result |-> HttpResponse(r.result), events |-> r.events]

\* an endpoint that answers only a GET with the description
Service_call_get_only(registry, hook, show, req) ==
    IF req.method # "GET"
    THEN Posted(process_request(registry, hook, show, req))
    ELSE [result |-> HttpResponse(get_smd(registry, req.full_path)),
          events |-> <<>>]

\* Service.__call__
Service_call(registry, hook, show, req) ==
    IF req.method = "POST"
    THEN Posted(process_request(registry, hook, show, req))
    ELSE [result |-> HttpResponse(get_smd(registry, req.full_path)),
          events |-> <<>>]

(***************************************************************************)
(* The inputs of the model.                                                *)
(***************************************************************************)
RegNames == {"add", "run"}
ReqNames == RegNames \cup {"missing"}
ReqParams == {JArr(<<>>), JArr(<<JNum(2), JNum(3)>>), JNum(5)}
ServicePath == "/rpc/"

RequestBody(id, method_name, params) ==
    JObj([id |-> JNum(id), method |-> JStr(method_name), params |-> params])

WellFormedBodies ==
    {RequestBody(1, m, p) : m \in ReqNames, p \in ReqParams}
    \cup {RequestBody(7, "add", JArr(<<JNum(2), JNum(3)>>)),
          RequestBody(7, "missing", JArr(<<>>))}

SampleMembers == [id |-> JNum(1), method |-> JStr("add"),
                  params |-> JArr(<<JNum(2), JNum(3)>>)]

\* objects that lack at least one of id, method, params
PartialBodies ==
    {JObj([k \in K |-> SampleMembers[k]]) :
        K \in (SUBSET {"id", "method", "params"}) \ {{"id", "method", "params"}}}

\* undecodable bytes, and JSON text that is not an object
NonObjectBodies == {NotJson, JNum(5), JArr(<<JNum(1)>>)}

MalformedBodies == PartialBodies \cup NonObjectBodies
Bodies == WellFormedBodies \cup MalformedBodies

EmptyRegistry == [n \in {} |-> NoMethod]
NoRequest == HttpRequest("None", NotJson, "")
NoOutcome == [op |-> "None", result |-> Return(JNull)]

\* the callers of the proxy, each about to evaluate proxy.<attr>(*args)
Callers == {1, 2}
NewCaller == [pc |-> "start", loaded |-> 0, data |-> PyNone, alone |-> TRUE]

NewProxy ==
    /\ callers = [c \in Callers |-> NewCaller]
    /\ smd = PyDict([k \in {} |-> PyNone])
    /\ proxy_methods = <<>>
    /\ call_id = 0
    /\ wrapped = "None"
    /\ sent = <<>>
    /\ client = NoOutcome
    /\ invokes = 0
    /\ fetches = 0
    /\ populated = 0
    /\ explicit = FALSE

\* ServiceBase.__init__(auth_func, show_exceptions) and ServiceProxy.__init__
Init ==
    /\ methods = EmptyRegistry
    /\ auth_func \in {NoHook} \cup Hooks
    /\ show_exceptions \in BOOLEAN
    /\ request = NoRequest
    /\ outcome = NoOutcome
    /\ events = <<>>
    /\ NewProxy

(***************************************************************************)
(* The service's operations.                                               *)
(***************************************************************************)
\* add_method returns None; the outcome also records the call's arguments
\* and the registry it was applied to
AddMethod(method_name, method) ==
    /\ methods' = add_method(methods, method_name, method)
    /\ request' = NoRequest
    /\ outcome' = [op |-> "add_method", result |-> Return(JNull),
                   method_name |-> method_name, method |-> method,
                   before |-> methods]
    /\ events' = <<>>
    /\ UNCHANGED <<auth_func, show_exceptions, proxy_vars>>

\* a dispatcher that unregisters every method once it has seen a request
\* that does not parse
ProcessRequest_unregistering(raw) ==
    LET req == HttpRequest("POST", raw, ServicePath)
        r == process_request(methods, auth_func, show_exceptions, req)
    IN  /\ request' = req
        /\ outcome' = [op |-> "process_request", result |-> r.result]
        /\ events' = r.events
        /\ methods' = IF raw \in MalformedBodies THEN EmptyRegistry ELSE methods
        /\ UNCHANGED <<auth_func, show_exceptions, proxy_vars>>

ProcessRequest(raw) ==
    LET req == HttpRequest("POST", raw, ServicePath)
        r == process_request(methods, auth_func, show_exceptions, req)
    IN  /\ request' = req
        /\ outcome' = [op |-> "process_request", result |-> r.result]
        /\ events' = r.events
        /\ UNCHANGED <<server_vars, proxy_vars>>

GetSmd(url) ==
    /\ request' = HttpRequest("None", NotJson, url)
    /\ outcome' = [op |-> "get_smd", result |-> get_smd(methods, url)]
    /\ events' = <<>>
    /\ UNCHANGED <<server_vars, proxy_vars>>

Call(req) ==
    LET r == Service_call(methods, auth_func, show_exceptions, req)
    IN  /\ request' = req
        /\ outcome' = [op |-> "__call__", result |-> r.result]
        /\ events' = r.events
        /\ UNCHANGED <<server_vars, proxy_vars>>

\* what arrives at the endpoint: POSTs, and requests with another HTTP method
PostedBodies ==
    {RequestBody(1, "add", JArr(<<JNum(2), JNum(3)>>)),
     RequestBody(1, "run", JArr(<<>>)),
     RequestBody(7, "missing", JArr(<<>>)),
     NotJson}

QueryPath == "/rpc/?smd"

HttpRequests ==
    {HttpRequest("POST", raw, ServicePath) : raw \in PostedBodies}
    \cup {HttpRequest(m, NotJson, ServicePath) : m \in {"GET", "HEAD"}}
    \cup {HttpRequest("GET", NotJson, QueryPath)}

Next ==
    \/ \E method_name \in RegNames, method \in Handlers :
          AddMethod(method_name, method)
    \/ \E raw \in Bodies : ProcessRequest(raw)
    \/ GetSmd(ServicePath)
    \/ \E req \in HttpRequests : Call(req)

Spec == Init /\ [][Next]_vars

(***************************************************************************)
(* ServiceProxy.  urllib2.urlopen is the transport: what it yields depends *)
(* on the endpoint behind the proxy's URL, which is the service above, an  *)
(* endpoint that is down, or another server answering with a body of its   *)
(* own.                                                                    *)
(***************************************************************************)
ViaService == [kind |-> "service", body |-> NotJson]
Down == [kind |-> "down", body |-> NotJson]
Answering(body) == [kind |-> "body", body |-> body]

NotServed == [request |-> NoRequest, outcome |-> NoOutcome, events |-> <<>>]

\* the service handled the request: an exception inside it is an HTTP 500,
\* which urlopen raises as HTTPError
Served(req, r) ==
    [result |-> IF r.result.raised
                THEN Raise("HTTPError", "HTTP Error 500")
                ELSE Return(r.result.value.content),
     served |-> [request |-> req,
                 outcome |-> [op |-> "__call__", result |-> r.result],
                 events |-> r.events]]

\* urllib2.urlopen(url, data).read()
urlopen(endpoint, registry, hook, show, req) ==
    CASE endpoint.kind = "down" ->
            [result |-> Raise("URLError", "connection refused"), served |-> NotServed]
      [] endpoint.kind = "body" ->
            [result |-> Return(endpoint.body), served |-> NotServed]
      [] endpoint.kind = "service" ->
            Served(req, Service_call(registry, hook, show, req))

from_json(data) == loads(data)

\* bool(value)
PyTruthy(v) ==
    CASE v.t = "dict" -> DOMAIN v.members # {}
      [] v.t \in {"list", "tuple"} -> v.items # <<>>
      [] v.t = "int" -> v.n # 0
      [] v.t = "str" -> v.s # ""
      [] v.t = "none" -> FALSE
      [] OTHER -> TRUE

\* [method['name'] for method in items]: the first subscript that fails
\* ends the comprehension
NamesOf(items) ==
    LET failing == {i \in 1..Len(items) : Subscript(items[i], "name").raised}
    IN  IF failing # {}
        THEN Subscript(items[CHOOSE i \in failing : \A k \in failing : i <= k], "name")
        ELSE Return([i \in 1..Len(items) |-> Subscript(items[i], "name").value])

\* [method['name'] for method in self.smd['methods']]
MethodNames(description) ==
    LET listed == Subscript(description, "methods")
    IN  IF listed.raised THEN listed
        ELSE IF listed.value.t \notin {"list", "tuple"}
        THEN Raise("TypeError", "object is not iterable")
        ELSE NamesOf(listed.value.items)

\* ServiceProxy.get_smd, given what urlopen yielded: the new smd and methods,
\* and what the call returns or raises
proxy_get_smd(cached, names, data) ==
    IF data.raised
    THEN [smd |-> cached, methods |-> names, result |-> data, extended |-> FALSE]
    ELSE LET parsed == from_json(data.value)
         IN  IF parsed.raised
             THEN [smd |-> cached, methods |-> names, result |-> parsed,
                   extended |-> FALSE]
             ELSE LET found == MethodNames(parsed.value)
                  IN  IF found.raised
                      THEN [smd |-> parsed.value, methods |-> names,
                            result |-> found, extended |-> FALSE]
                      ELSE [smd |-> parsed.value, methods |-> names \o found.value,
                            result |-> Return(PyNone), extended |-> TRUE]

\* a test that never asks for a fetch
needs_smd_never(cached) == FALSE

\* a test that asks for a fetch on every access
needs_smd_always(cached) == TRUE

\* Line 177: if not self.smd
needs_smd(cached) == ~PyTruthy(cached)

\* a request that carries the call_id read before the increment
build_request_stale(cid, method_name, params) ==
    [call_id |-> cid + 1,
     data |-> PyDict([method |-> PyStr(method_name),
                      params |-> params,
                      id |-> PyInt(cid)])]

\* an increment that leaves call_id as it is
next_call_id_stuck(cid) == cid

\* Line 163: self.call_id += 1 stores the value it loaded, plus one
next_call_id(cid) == cid + 1

\* Lines 164-168: the request, with the value self.call_id has when it is
\* read
request_data(cid, method_name, params) ==
    PyDict([method |-> PyStr(method_name),
            params |-> params,
            id |-> PyInt(cid)])

\* Lines 163-168: the request call_method builds and the call_id it leaves
build_request(cid, method_name, params) ==
    [call_id |-> next_call_id(cid),
     data |-> request_data(next_call_id(cid), method_name, params)]

\* Lines 182-186: what wrapped makes of the response call_method returned
unwrap(resp) ==
    LET result == Subscript(resp, "result")
    IN  IF ~result.raised THEN result
        ELSE IF result.etype # "KeyError" THEN result
        ELSE LET error == Subscript(resp, "error")
                 err_name == IF error.raised THEN error
                             ELSE Subscript(error.value, "name")
                 err_msg == IF error.raised THEN error
                            ELSE Subscript(error.value, "message")
             IN  IF err_name.raised THEN err_name
                 ELSE IF err_msg.raised THEN err_msg
                 ELSE Raise("JsonRpcError",
                            Format(err_name.value) \o ": " \o Format(err_msg.value))

(***************************************************************************)
(* The proxy's operations, against a service whose registry is set up.     *)
(***************************************************************************)
MaxCalls == 3
MaxFetches == 2

DemoRegistry ==
    [n \in {"add", "noop", "now", "boom"} |->
        CASE n = "add" -> hAdd
          [] n = "noop" -> hNoop
          [] n = "now" -> hNow
          [] n = "boom" -> hBoom]

ProxyAttrs == {"add", "noop", "now", "boom", "missing"}
ProxyArgs == {<<>>, <<PyInt(2), PyInt(3)>>, <<PyObject>>}

EmptyObject == JObj([k \in {} |-> JNull])
\* a description that lists no methods key
BareDescription == JObj([serviceType |-> JStr("JSON-RPC")])
\* the description of a service that has no method registered
EmptyDescription ==
    JObj([serviceType |-> JStr("JSON-RPC"), serviceURL |-> JStr(ServicePath),
          methods |-> JArr(<<>>)])
\* an envelope in the style of servers that always send both keys
BothKeys ==
    JObj([id |-> JNum(1), result |-> JNull,
          error |-> JObj([name |-> JStr("JsonRpcError"), code |-> JNum(100),
                          message |-> JStr("remote failure")])])
NeitherKey == JObj([id |-> JNum(1), version |-> JStr("1.1")])

SmdEndpoints ==
    {ViaService, Down, Answering(NotJson), Answering(EmptyObject),
     Answering(BareDescription), Answering(EmptyDescription)}
CallEndpoints ==
    {ViaService, Down, Answering(BothKeys), Answering(NeitherKey)}

InitProxy ==
    /\ methods = DemoRegistry
    /\ auth_func \in {NoHook, "guard_add"}
    /\ show_exceptions \in BOOLEAN
    /\ request = NoRequest
    /\ outcome = NoOutcome
    /\ events = <<>>
    /\ NewProxy

ProxyOutcome(op, attr, args, via, resp, result) ==
    [op |-> op, attr |-> attr, args |-> args, via |-> via,
     resp |-> resp, result |-> result]

\* self.get_smd() with the transport's endpoint chosen: the fetch, the cache
\* update, and what the service saw of it
Fetched(got) == [got |-> got, r |-> proxy_get_smd(smd, proxy_methods, got.result)]

Fetch(endpoint) ==
    Fetched(urlopen(endpoint, methods, auth_func, show_exceptions,
                    HttpRequest("GET", NotJson, ServicePath)))

\* proxy.<attr>: ServiceProxy.__getattr__
GetAttr(attr, endpoint) ==
    /\ needs_smd(smd)
    /\ fetches < MaxFetches
    /\ \E f \in {Fetch(endpoint)} :
           /\ smd' = f.r.smd
           /\ proxy_methods' = f.r.methods
           /\ fetches' = fetches + 1
           /\ populated' = populated + (IF f.r.extended THEN 1 ELSE 0)
           /\ wrapped' = IF f.r.result.raised THEN wrapped ELSE attr
           /\ client' = ProxyOutcome("__getattr__", attr, <<>>, endpoint.kind,
                                     f.r.result,
                                     IF f.r.result.raised THEN f.r.result
                                     ELSE Return(PyStr(attr)))
           /\ request' = f.got.served.request
           /\ outcome' = f.got.served.outcome
           /\ events' = f.got.served.events
    /\ UNCHANGED <<server_vars, call_id, sent, invokes, explicit, callers>>

GetAttrCached(attr) ==
    /\ ~needs_smd(smd)
    /\ wrapped' = attr
    /\ client' = ProxyOutcome("__getattr__", attr, <<>>, "none",
                              Return(PyNone), Return(PyStr(attr)))
    /\ request' = NoRequest
    /\ outcome' = NoOutcome
    /\ events' = <<>>
    /\ UNCHANGED <<server_vars, smd, proxy_methods, call_id, sent, invokes,
                   fetches, populated, explicit, callers>>

\* proxy.get_smd(), called by the user
ExplicitGetSmd(endpoint) ==
    /\ fetches < MaxFetches
    /\ \E f \in {Fetch(endpoint)} :
           /\ smd' = f.r.smd
           /\ proxy_methods' = f.r.methods
           /\ fetches' = fetches + 1
           /\ populated' = populated + (IF f.r.extended THEN 1 ELSE 0)
           /\ client' = ProxyOutcome("get_smd", "None", <<>>, endpoint.kind,
                                     f.r.result, f.r.result)
           /\ request' = f.got.served.request
           /\ outcome' = f.got.served.outcome
           /\ events' = f.got.served.events
    /\ explicit' = TRUE
    /\ UNCHANGED <<server_vars, call_id, sent, invokes, wrapped, callers>>

\* Lines 171-173: the response has arrived, or urlopen raised
received(cid, body, got) ==
    [call_id |-> cid, body |-> body,
     resp |-> IF got.result.raised THEN got.result ELSE from_json(got.result.value),
     served |-> got.served]

\* Line 170: the request is serialized, then posted
post(cid, body, endpoint, registry, hook, show) ==
    IF body.raised
    THEN [call_id |-> cid, body |-> body, resp |-> body, served |-> NotServed]
    ELSE received(cid, body,
                  urlopen(endpoint, registry, hook, show,
                          HttpRequest("POST", body.value, ServicePath)))

built_request(built, endpoint, registry, hook, show) ==
    post(built.call_id, to_json(built.data), endpoint, registry, hook, show)

\* ServiceProxy.call_method: [call_id, body posted or the failure to build it,
\*                            resp returned or raised, what the service saw]
call_method(cid, method_name, params, endpoint, registry, hook, show) ==
    built_request(build_request(cid, method_name, params),
                  endpoint, registry, hook, show)

\* wrapped(*args): the callable __getattr__ returned, invoked
CallWrapped(args, endpoint) ==
    /\ wrapped # "None"
    /\ call_id < MaxCalls
    /\ \E c \in {call_method(call_id, wrapped, PyTuple(args), endpoint,
                             methods, auth_func, show_exceptions)} :
           /\ call_id' = c.call_id
           /\ invokes' = invokes + 1
           /\ sent' = IF c.body.raised THEN sent
                      ELSE Append(sent, c.body.value.members.id.n)
           /\ client' = ProxyOutcome("call", wrapped, args,
                                     IF c.body.raised THEN "none" ELSE endpoint.kind,
                                     c.resp,
                                     IF c.resp.raised THEN c.resp
                                     ELSE unwrap(c.resp.value))
           /\ request' = c.served.request
           /\ outcome' = c.served.outcome
           /\ events' = c.served.events
    /\ UNCHANGED <<server_vars, smd, proxy_methods, wrapped, fetches,
                   populated, explicit, callers>>

NextProxy ==
    \/ \E attr \in ProxyAttrs, endpoint \in SmdEndpoints : GetAttr(attr, endpoint)
    \/ \E attr \in ProxyAttrs : GetAttrCached(attr)
    \/ \E endpoint \in SmdEndpoints : ExplicitGetSmd(endpoint)
    \/ \E args \in ProxyArgs, endpoint \in CallEndpoints : CallWrapped(args, endpoint)

SpecProxy == InitProxy /\ [][NextProxy]_vars

(***************************************************************************)
(* One proxy shared by two callers.  Each caller accesses a method name    *)
(* on the proxy and invokes the callable once, and the interpreter may     *)
(* switch from one caller to the other between any two reads or writes of  *)
(* the proxy's attributes: nothing in ServiceProxy takes a lock.           *)
(***************************************************************************)
Program(c) ==
    IF c = 1 THEN [attr |-> "noop", args |-> <<>>]
    ELSE [attr |-> "add", args |-> <<PyInt(2), PyInt(3)>>]

\* no other caller is inside its call
OthersQuiet(c) == \A d \in Callers \ {c} : callers[d].pc \in {"start", "done"}

\* caller c moves on; alone records whether all its steps so far were taken
\* while no other caller was inside a call
Goes(c, pc) ==
    [callers EXCEPT ![c].pc = pc,
                    ![c].alone = callers[c].alone /\ OthersQuiet(c)]

\* Line 177: if not self.smd
TestSmd(c) ==
    /\ callers[c].pc = "start"
    /\ callers' = Goes(c, IF needs_smd(smd) THEN "fetch" ELSE "wrapped")
    /\ wrapped' = IF needs_smd(smd) THEN wrapped ELSE Program(c).attr
    /\ UNCHANGED <<server_vars, served_vars, smd, proxy_methods, call_id, sent,
                   client, invokes, fetches, populated, explicit>>

\* Lines 157-159: the description is fetched and stored in self.smd
StoreSmd(c) ==
    /\ callers[c].pc = "fetch"
    /\ \E got \in {urlopen(ViaService, methods, auth_func, show_exceptions,
                            HttpRequest("GET", NotJson, ServicePath))} :
           /\ smd' = from_json(got.result.value).value
           /\ request' = got.served.request
           /\ outcome' = got.served.outcome
           /\ events' = got.served.events
    /\ fetches' = fetches + 1
    /\ callers' = Goes(c, "extend")
    /\ UNCHANGED <<server_vars, proxy_methods, call_id, sent, client, invokes,
                   populated, explicit, wrapped>>

\* Line 160: self.methods += the names in self.smd, as it is now; then
\* __getattr__ returns wrapped
ExtendMethods(c) ==
    /\ callers[c].pc = "extend"
    /\ proxy_methods' = proxy_methods \o MethodNames(smd).value
    /\ populated' = populated + 1
    /\ wrapped' = Program(c).attr
    /\ callers' = Goes(c, "wrapped")
    /\ UNCHANGED <<server_vars, served_vars, smd, call_id, sent, client,
                   invokes, fetches, explicit>>

\* Line 163, first half: self.call_id is loaded
LoadCallId(c) ==
    /\ callers[c].pc = "wrapped"
    /\ callers' = [Goes(c, "loaded") EXCEPT ![c].loaded = call_id]
    /\ invokes' = invokes + 1
    /\ UNCHANGED <<server_vars, served_vars, smd, proxy_methods, call_id, sent,
                   client, fetches, populated, explicit, wrapped>>

\* Line 163, second half: the sum is stored in self.call_id
StoreCallId(c) ==
    /\ callers[c].pc = "loaded"
    /\ call_id' = next_call_id(callers[c].loaded)
    /\ callers' = Goes(c, "stored")
    /\ UNCHANGED <<server_vars, served_vars, smd, proxy_methods, sent, client,
                   invokes, fetches, populated, explicit, wrapped>>

\* Lines 164-168: data is built, reading self.call_id again
BuildData(c) ==
    /\ callers[c].pc = "stored"
    /\ callers' = [Goes(c, "built") EXCEPT
                      ![c].data = request_data(call_id, Program(c).attr,
                                               PyTuple(Program(c).args))]
    /\ UNCHANGED <<server_vars, served_vars, smd, proxy_methods, call_id, sent,
                   client, invokes, fetches, populated, explicit, wrapped>>

\* Lines 170-173 and 182-186: the request is posted and the response
\* unwrapped
SendData(c) ==
    /\ callers[c].pc = "built"
    /\ \E r \in {post(call_id, to_json(callers[c].data), ViaService,
                       methods, auth_func, show_exceptions)} :
           /\ sent' = Append(sent, r.body.value.members.id.n)
           /\ client' = ProxyOutcome("call", Program(c).attr, Program(c).args,
                                     "service", r.resp,
                                     IF r.resp.raised THEN r.resp
                                     ELSE unwrap(r.resp.value))
           /\ request' = r.served.request
           /\ outcome' = r.served.outcome
           /\ events' = r.served.events
    /\ callers' = Goes(c, "done")
    /\ UNCHANGED <<server_vars, smd, proxy_methods, call_id, invokes, fetches,
                   populated, explicit, wrapped>>

NextShared ==
    \E c \in Callers :
        \/ TestSmd(c)
        \/ StoreSmd(c)
        \/ ExtendMethods(c)
        \/ LoadCallId(c)
        \/ StoreCallId(c)
        \/ BuildData(c)
        \/ SendData(c)

SpecShared == InitProxy /\ [][NextShared]_vars

(***************************************************************************)
(* Reading the state: the last request and what process_request made of it *)
(***************************************************************************)
Handled == outcome.op = "process_request"
WellFormed == request.raw_post_data \in WellFormedBodies
Malformed == request.raw_post_data \in MalformedBodies
ReqId == request.raw_post_data.members.id
ReqMethod == request.raw_post_data.members.method.s
ReqParamsDoc == request.raw_post_data.members.params
Returned == ~outcome.result.raised
Envelope == outcome.result.value.members
HandlerCalls == SelectSeq(events, LAMBDA e : e.op = "handler")
HookCalls == SelectSeq(events, LAMBDA e : e.op = "auth_func")

ErrorEnvelope(id, code, message) ==
    /\ Returned
    /\ Envelope.version = JStr("1.1")
    /\ Envelope.id = id
    /\ Envelope.error = JObj([name |-> JStr("JsonRpcError"),
                              code |-> JNum(code),
                              message |-> JStr(message)])

\* what the installed hook answers for the last request
HookAnswer == HookReturn(auth_func, ReqMethod, Decode(ReqParamsDoc))
IsPair(answer) == answer.t = "tuple" /\ Len(answer.items) = 2

\* C1: a well-formed request naming a registered method whose handler
\* returns without raising is answered by an envelope with version "1.1",
\* error null, the handler's return value as result and the request's id.
C1_SuccessEnvelope ==
    (Handled /\ WellFormed /\ ReqMethod \in DOMAIN methods
        /\ Len(HandlerCalls) = 1 /\ ~HandlerCalls[1].result.raised)
    => /\ Returned
       /\ Envelope.version = JStr("1.1")
       /\ Envelope.error = JNull
       /\ Return(Envelope.result) = dumps(HandlerCalls[1].result.value)
       /\ Envelope.id = ReqId

\* C2: a malformed payload (undecodable, not an object, or lacking id,
\* method or params) is answered by an error envelope with code 100 and
\* the message "Malformed JSON-RPC 1.1 request"; process_request returns it
\* rather than failing.
C2_MalformedEnvelope ==
    (Handled /\ Malformed)
    => /\ Returned
       /\ Envelope.version = JStr("1.1")
       /\ Envelope.error = JObj([name |-> JStr("JsonRpcError"),
                                 code |-> JNum(100),
                                 message |-> JStr("Malformed JSON-RPC 1.1 request")])

\* C3 as stated: every well-formed request whose method is not registered
\* gets the request's id, code 100 and the message
\* method "<name>" does not exist, and no handler is invoked.
C3_UnknownMethod_Original ==
    (Handled /\ WellFormed /\ ReqMethod \notin DOMAIN methods)
    => /\ ErrorEnvelope(ReqId, 100, "method \"" \o ReqMethod \o "\" does not exist")
       /\ HandlerCalls = <<>>

\* C3 as amended: a well-formed request whose method is not registered gets
\* an error envelope with the request's id and code 100 and no handler is
\* invoked; its message is method "<name>" does not exist, unless the
\* authorization hook rejected the request with a message of its own (a pair
\* whose first item is false), which is then the message.
C3_UnknownMethod ==
    (Handled /\ WellFormed /\ ReqMethod \notin DOMAIN methods)
    => /\ HandlerCalls = <<>>
       /\ IF auth_func # NoHook /\ IsPair(HookAnswer) /\ ~HookAnswer.items[1]
          THEN ErrorEnvelope(ReqId, 100, HookAnswer.items[2])
          ELSE ErrorEnvelope(ReqId, 100,
                             "method \"" \o ReqMethod \o "\" does not exist")

C3_Witness ==
    /\ Handled /\ WellFormed /\ ReqMethod \notin DOMAIN methods
    /\ methods # EmptyRegistry
    /\ auth_func = "bare_true"
    /\ HookCalls # <<>>
    /\ ErrorEnvelope(JNum(7), 100, "method \"missing\" does not exist")

\* the hook rejects: its pair says false, or a value that is no pair is false
Rejects(answer) ==
    IF IsPair(answer) THEN ~answer.items[1] ELSE ~Truthy(answer)

\* C4: a well-formed request the authorization hook rejects is answered by
\* an error envelope with code 100 whose message is the one in the hook's
\* (authorized, message) pair, or the fallback method "<name>" does not
\* exist when the hook did not return such a pair.
C4_Unauthorized ==
    (Handled /\ WellFormed /\ auth_func # NoHook /\ Rejects(HookAnswer))
    => ErrorEnvelope(ReqId, 100,
                     IF IsPair(HookAnswer)
                     THEN HookAnswer.items[2]
                     ELSE "method \"" \o ReqMethod \o "\" does not exist")

C4_Witness ==
    /\ Handled /\ WellFormed /\ auth_func = "guard_add"
    /\ ReqMethod = "add" /\ "add" \in DOMAIN methods
    /\ ErrorEnvelope(ReqId, 100, "add is restricted")

\* C5 as stated: whenever the hook returns something that is no
\* (authorized, message) pair, the request is treated as not authorized: it
\* is answered with the fallback message and no handler is invoked.
C5_NonPair_Original ==
    (Handled /\ WellFormed /\ auth_func # NoHook /\ ~IsPair(HookAnswer))
    => /\ ErrorEnvelope(ReqId, 100, "method \"" \o ReqMethod \o "\" does not exist")
       /\ HandlerCalls = <<>>

\* C5 as amended: when the hook returns something that is no pair, the
\* request is treated as not authorized exactly when that value is false
\* (False, None, an empty sequence): it is then answered with the fallback
\* message and no handler is invoked.  A true value (a bare True, a
\* non-empty sequence of another length) authorizes the request, and the
\* handler of a registered method is invoked.
C5_NonPair ==
    (Handled /\ WellFormed /\ auth_func # NoHook /\ ~IsPair(HookAnswer))
    => IF Truthy(HookAnswer)
       THEN Len(HandlerCalls) = (IF ReqMethod \in DOMAIN methods THEN 1 ELSE 0)
       ELSE /\ ErrorEnvelope(ReqId, 100,
                             "method \"" \o ReqMethod \o "\" does not exist")
            /\ HandlerCalls = <<>>

C5_Witness ==
    /\ Handled /\ WellFormed /\ auth_func = "bare_true"
    /\ ReqMethod = "add" /\ Len(HandlerCalls) = 1
    /\ Returned /\ Envelope.error = JNull /\ Envelope.result = JNum(5)

\* C6: a failure raised by the resolved handler, an argument-count mismatch
\* included, is never propagated: process_request returns an error envelope
\* with the request's id and code 100, whose message is "An error occurred"
\* when show_exceptions is off and "<category>: <description>" when on.
C6_HandlerFailure ==
    (Handled /\ Len(HandlerCalls) = 1 /\ HandlerCalls[1].result.raised)
    => ErrorEnvelope(ReqId, 100,
                     IF show_exceptions
                     THEN HandlerCalls[1].result.etype \o ": "
                              \o HandlerCalls[1].result.evalue
                     ELSE "An error occurred")

C6_Witness ==
    /\ Handled /\ show_exceptions
    /\ Len(HandlerCalls) = 1 /\ HandlerCalls[1].fn = "add"
    /\ ErrorEnvelope(JNum(1), 100,
                     "TypeError: add() takes exactly 3 arguments (1 given)")

Stages == [i \in 1..Len(events) |-> events[i].op]
Lookups == SelectSeq(events, LAMBDA e : e.op = "get_method")
IsPrefix(s, t) == Len(s) <= Len(t) /\ \A i \in 1..Len(s) : s[i] = t[i]
\* the authorization stage lets the last request through
Authorizes == auth_func = NoHook \/ ~Rejects(HookAnswer)

\* C13: within one process_request the stages come in the order parse,
\* authorize, resolve, invoke.  A request that does not parse reaches no
\* later stage.  For every request that parses, the installed hook is
\* consulted exactly once and before anything else, whether or not the
\* method name is registered; the registry is looked up only when the
\* authorization let the request through; a handler is invoked at most
\* once, and only for a request that parsed, was authorized and resolved.
C13_StageOrder ==
    Handled =>
       /\ Malformed => events = <<>>
       /\ IsPrefix(Stages, IF auth_func # NoHook
                           THEN <<"auth_func", "get_method", "handler">>
                           ELSE <<"get_method", "handler">>)
       /\ (WellFormed /\ auth_func # NoHook)
            => (Len(HookCalls) = 1 /\ Stages[1] = "auth_func")
       /\ WellFormed => (Len(Lookups) = 1 <=> Authorizes)
       /\ Len(HandlerCalls) <= 1
       /\ Len(HandlerCalls) = 1
            <=> (WellFormed /\ Authorizes /\ ReqMethod \in DOMAIN methods)

\* the hook is asked about an unregistered name, lets the request through,
\* and the lookup then ends the request
C13_Witness ==
    /\ Handled /\ WellFormed /\ auth_func = "guard_add"
    /\ ReqMethod = "missing" /\ "add" \in DOMAIN methods
    /\ Stages = <<"auth_func", "get_method">>
    /\ ErrorEnvelope(ReqId, 100, "method \"missing\" does not exist")

\* the handler of the last request was called and returned
Succeeded == Len(HandlerCalls) = 1 /\ ~HandlerCalls[1].result.raised

\* C14 as stated: every envelope process_request returns has both a result
\* key and an error key, one of them null: error is null on success, and
\* result is present and null on every error response.
C14_BothKeys_Original ==
    (Handled /\ Returned) =>
       /\ {"result", "error"} \subseteq DOMAIN Envelope
       /\ IF Succeeded THEN Envelope.error = JNull ELSE Envelope.result = JNull

\* C14 as amended: a success envelope has the keys version, id, result and
\* error, with error null; an error envelope has the keys id, version and
\* error, with error populated, and has no result key at all.
C14_EnvelopeKeys ==
    (Handled /\ Returned) =>
       IF Succeeded
       THEN /\ DOMAIN Envelope = {"version", "id", "result", "error"}
            /\ Envelope.error = JNull
       ELSE /\ DOMAIN Envelope = {"id", "version", "error"}
            /\ Envelope.error # JNull
            /\ DOMAIN Envelope.error.members = {"name", "code", "message"}

\* an error envelope: the handler raised, and no result key is sent
C14_Witness ==
    /\ Handled /\ Returned
    /\ Len(HandlerCalls) = 1 /\ HandlerCalls[1].result.raised
    /\ "result" \notin DOMAIN Envelope
    /\ Envelope.error.members.message = JStr("An error occurred")

(***************************************************************************)
(* The registry and the service description.                               *)
(***************************************************************************)
Registered == outcome.op = "add_method"

\* C11: after a registration, the lookup of the registered name returns the
\* handler just given, whatever the name was bound to before; the lookup of
\* every other name returns what it returned before the registration; and
\* a name that is never registered is never found.
C11_LastRegistrationWins ==
    /\ get_method(methods, "missing") = NoMethod
    /\ \A n \in ReqNames \ DOMAIN methods : get_method(methods, n) = NoMethod
    /\ Registered =>
          \A n \in ReqNames :
              get_method(methods, n)
                = IF n = outcome.method_name
                  THEN outcome.method
                  ELSE get_method(outcome.before, n)

\* "add" is registered again, with another handler, beside "run"
C11_Witness ==
    /\ Registered
    /\ outcome.method_name = "add" /\ outcome.method = hBoom
    /\ get_method(outcome.before, "add") = hAdd
    /\ get_method(outcome.before, "run") = hNoop
    /\ get_method(methods, "add") = hBoom
    /\ get_method(methods, "run") = hNoop

\* the last operation produced a service description: get_smd itself, or a
\* request to the endpoint that was not a POST
Described ==
    \/ outcome.op = "get_smd"
    \/ outcome.op = "__call__" /\ request.method # "POST"
Description ==
    IF outcome.op = "get_smd" THEN outcome.result.value
    ELSE outcome.result.value.content
SmdNames(text) ==
    [i \in 1..Len(text.members.methods.items) |->
        text.members.methods.items[i].members.name.s]
Range(seq) == {seq[i] : i \in 1..Len(seq)}

C12_EntryPerName ==
    Described =>
       /\ Returned
       /\ Len(SmdNames(Description)) = Cardinality(DOMAIN methods)
       /\ Range(SmdNames(Description)) = DOMAIN methods

\* this step and the one before it both produced a description, of the
\* same registry
C12_Again ==
    (Described /\ Described' /\ methods' = methods)
    => Range(SmdNames(Description')) = Range(SmdNames(Description))

\* C12: the methods list of a service description has exactly one entry
\* per registered name, so its set of names is the set of registered names;
\* and two descriptions produced one after the other from an unchanged
\* registry list the same set of names.
C12_OneEntryPerName == []C12_EntryPerName /\ [][C12_Again]_vars

\* a description of a registry of two methods
C12_Witness ==
    /\ outcome.op = "get_smd" /\ Returned
    /\ DOMAIN methods = {"add", "run"}
    /\ Len(SmdNames(Description)) = 2
    /\ Range(SmdNames(Description)) = {"add", "run"}

\* the number of leading parameters, of the first two, named self / request
LeadingContext(args) ==
    IF Len(args) >= 1 /\ args[1] \in ContextNames
    THEN IF Len(args) >= 2 /\ args[2] \in ContextNames THEN 2 ELSE 1
    ELSE 0
Logical(args) == SubSeq(args, LeadingContext(args) + 1, Len(args))
SmdEntries(text) == text.members.methods.items
ParameterNames(entry) ==
    [j \in 1..Len(entry.members.parameters.items) |->
        entry.members.parameters.items[j].members.name.s]

\* C15: for every registered handler, the parameters the description lists
\* for it are its declared parameter names, in declaration order, without
\* the leading context parameters (those of the first two that are named
\* self or request): every parameter after them is listed, whatever its
\* name, and none of them is.
C15_LeadingContextOnly ==
    (Described /\ Returned) =>
       \A i \in 1..Len(SmdEntries(Description)) :
           ParameterNames(SmdEntries(Description)[i])
             = Logical(methods[SmdEntries(Description)[i].members.name.s].args)

(***************************************************************************)
(* Reading the state: the last proxy operation.                            *)
(***************************************************************************)
Called == client.op = "call"
\* the call's request went out to the service modelled above
RoundTrip == Called /\ client.via = "service"
\* the call got a response that decoded to an object
GotEnvelope == Called /\ ~client.resp.raised /\ client.resp.value.t = "dict"
Response == client.resp.value.members
PostedEnvelope == outcome.result.value.content.members
Increasing(ids) == \A i \in 1..(Len(ids) - 1) : ids[i] < ids[i + 1]

\* C7: call_id starts at 0 and each call_method adds exactly one to it
\* before building its request, so after n calls it is n, whether or not
\* the transport failed; the ids of the requests sent are strictly
\* increasing, and the request of the last call carries the new call_id.
C7_CallIdCounts ==
    /\ call_id = invokes
    /\ Increasing(sent)
    /\ \A i \in 1..Len(sent) : sent[i] \in 1..call_id
    /\ (Called /\ client.via # "none") => sent[Len(sent)] = call_id

C7_Witness ==
    /\ invokes = 3 /\ call_id = 3 /\ sent = <<1, 2, 3>>
    /\ Called /\ client.via = "down" /\ client.result.raised

\* C8: a call that received a response envelope fails with JsonRpcError,
\* carrying the error's name and message, if and only if the envelope has
\* a non-null error; otherwise it returns the envelope's result.  An
\* envelope with both a result key and a populated error is a failure.
C8_ErrorIffPopulated ==
    GotEnvelope
    => /\ (client.result.raised /\ client.result.etype = "JsonRpcError")
            <=> ("error" \in DOMAIN Response /\ Response.error # PyNone)
       /\ ("error" \in DOMAIN Response /\ Response.error # PyNone)
            => client.result.evalue
                 = Response.error.members.name.s \o ": "
                     \o Response.error.members.message.s
       /\ ("result" \in DOMAIN Response /\ ~client.result.raised)
            => client.result = Return(Response.result)

\* C9: a call served by the dispatcher carries the proxy's call_id and the
\* response echoes it; when the handler returned V the call returns V (as
\* the wire represents it), and when the dispatcher answered with an error
\* envelope the call fails with JsonRpcError carrying its name and message.
C9_RoundTrip ==
    RoundTrip
    => /\ request.raw_post_data.members.id = JNum(call_id)
       /\ (Len(HandlerCalls) = 1 /\ ~HandlerCalls[1].result.raised)
            => /\ ~client.result.raised
               /\ dumps(client.result.value) = dumps(HandlerCalls[1].result.value)
               /\ PostedEnvelope.id = JNum(call_id)
       /\ (HandlerCalls = <<>> \/ HandlerCalls[1].result.raised)
            => /\ ~outcome.result.raised
               /\ PostedEnvelope.id = JNum(call_id)
               /\ client.result.raised
               /\ client.result.etype = "JsonRpcError"
               /\ client.result.evalue
                    = PostedEnvelope.error.members.name.s \o ": "
                        \o PostedEnvelope.error.members.message.s

\* C10 as stated: with no explicit get_smd call, at most one description
\* fetch is ever issued and the method list is populated at most once.
C10_OneFetch_Original ==
    ~explicit => (fetches <= 1 /\ populated <= 1)

\* C10 as amended: with no explicit get_smd call the method list is
\* populated at most once.  A fetch that fails may be followed by another
\* fetch, but once a fetch has populated the method list no further fetch
\* is issued and the cached description and method list never change.
C10_PopulatedOnce ==
    [][~explicit' =>
          /\ populated' <= 1
          /\ populated = 1 =>
                /\ smd' = smd
                /\ proxy_methods' = proxy_methods
                /\ fetches' = fetches
                /\ populated' = populated]_vars

C10_Witness ==
    /\ ~explicit /\ populated = 1 /\ fetches = 2
    /\ Len(proxy_methods) = 4
    /\ Called /\ client.via = "service"

(***************************************************************************)
(* The dispatcher's own state, and the endpoint.                           *)
(***************************************************************************)
\* the step is a request to the dispatcher: process_request, get_smd or the
\* endpoint
Dispatches == outcome'.op \in {"process_request", "get_smd", "__call__"}

\* C17: process_request and get_smd, whatever path the request takes
\* (success, malformed, unauthorized, unknown method, handler failure),
\* leave the registry, the hook and show_exceptions as they were; and the
\* response is the one a dispatcher with this registry and configuration
\* gives to the request on its own, whatever requests came before.
C17_Stateless ==
    [][Dispatches =>
          /\ methods' = methods
          /\ auth_func' = auth_func
          /\ show_exceptions' = show_exceptions
          /\ outcome'.op = "process_request"
               => outcome'.result
                    = process_request(methods, auth_func, show_exceptions,
                                      request').result
          /\ outcome'.op = "get_smd"
               => outcome'.result = get_smd(methods, request'.full_path)]_vars

\* a handler failure, answered by a dispatcher that has a full registry
C17_Witness ==
    /\ Handled /\ auth_func = "bare_true"
    /\ DOMAIN methods = RegNames
    /\ Len(HandlerCalls) = 1 /\ HandlerCalls[1].fn = "boom"
    /\ HandlerCalls[1].result.raised
    /\ Returned

Endpoint == outcome.op = "__call__"
Content == outcome.result.value.content

\* C20: at the endpoint, a POST is handled by process_request: the response
\* carries what process_request returns for the request, with the hook and
\* handler calls it makes, and is never the service description.  A request
\* with any other HTTP method is answered with the service description for
\* the request's full path, and neither a handler nor the hook is called.
C20_EndpointDispatch ==
    Endpoint =>
       IF request.method = "POST"
       THEN /\ outcome.result
                 = HttpResponse(process_request(methods, auth_func,
                                                show_exceptions, request).result)
            /\ events = process_request(methods, auth_func,
                                        show_exceptions, request).events
            /\ Returned => "serviceType" \notin DOMAIN Content.members
       ELSE /\ Returned
            /\ Return(Content) = get_smd(methods, request.full_path)
            /\ Content.members.serviceType = JStr("JSON-RPC")
            /\ Content.members.serviceURL = JStr(request.full_path)
            /\ Range(SmdNames(Content)) = DOMAIN methods
            /\ events = <<>>

\* a HEAD request to a service with a hook and two methods
C20_Witness ==
    /\ Endpoint /\ request.method = "HEAD"
    /\ auth_func = "deny" /\ DOMAIN methods = RegNames
    /\ Returned
    /\ Content.members.serviceURL = JStr(ServicePath)
    /\ events = <<>>

(***************************************************************************)
(* The proxy's cache.                                                      *)
(***************************************************************************)
\* the step is a dynamic access, proxy.<attr>
Accesses == client'.op = "__getattr__"
\* the step performed a description fetch
Fetches == fetches' = fetches + 1
\* the description fetch of the step failed
FetchFailed ==
    /\ client'.op \in {"__getattr__", "get_smd"}
    /\ Fetches
    /\ client'.resp.raised
NoDescription == PyDict([k \in {} |-> PyNone])

\* the invocation of the callable makes one call_method call, for the name
\* that was accessed and the arguments given
Delegates ==
    client'.op = "call" =>
       /\ invokes' = invokes + 1
       /\ client'.attr = wrapped
       /\ client'.via = "service" =>
             /\ request'.raw_post_data.members.method = JStr(wrapped)
             /\ request'.raw_post_data.members.params
                  = Encode(PyTuple(client'.args))

\* C16 as stated: on every dynamic access a description fetch is performed
\* first if and only if the cached method list is empty at that moment,
\* also when a description fetched before listed no methods; the access
\* yields a callable whose invocation delegates to exactly one call_method.
C16_FetchIffNoMethods_Original ==
    [][/\ Accesses => (Fetches <=> proxy_methods = <<>>)
       /\ Delegates]_vars

\* C16 as amended: on every dynamic access a description fetch is performed
\* first if and only if the cached description is empty at that moment,
\* which it is until a fetch has stored a non-empty description: after a
\* description that lists no methods no further fetch is performed, though
\* the cached method list is empty.  Unless the fetch fails, the access
\* yields a callable for the accessed name, whose invocation delegates to
\* exactly one call_method with that name and the arguments given.
C16_FetchIffNoDescription ==
    [][/\ Accesses =>
            /\ Fetches <=> smd = NoDescription
            /\ ~client'.resp.raised => wrapped' = client'.attr
       /\ Delegates]_vars

\* an access after a description that listed no methods: nothing is fetched
C16_Witness ==
    /\ client.op = "__getattr__" /\ client.via = "none"
    /\ smd = Decode(EmptyDescription)
    /\ proxy_methods = <<>>
    /\ fetches = 1
    /\ wrapped = client.attr

\* C19: a get_smd that fails (the transport fails, the body cannot be
\* decoded, or the decoded body has no methods list) raises the failure to
\* its caller and leaves the cached description and the cached method list
\* as they were before the call, so that the next dynamic access of a proxy
\* without a description fetches again.
C19_FailedFetchKeepsCache ==
    [][FetchFailed =>
          /\ client'.result = client'.resp
          /\ smd' = smd
          /\ proxy_methods' = proxy_methods
          /\ smd = NoDescription => smd' = NoDescription]_vars

(***************************************************************************)
(* The shared proxy.                                                       *)
(***************************************************************************)
\* each caller took all its steps while the other was outside its call
Serial == \A c \in Callers : callers[c].alone
\* how often the cached method list holds the name
Listed(n) == Cardinality({i \in 1..Len(proxy_methods) : proxy_methods[i] = PyStr(n)})
AllDone == \A c \in Callers : callers[c].pc = "done"

\* C18: a proxy shared by two callers is not safe.  Used by one caller
\* after the other, the requests carry the ids 1, 2 in turn, the
\* description is fetched once and every name is listed once; when a
\* request carries the id of another request or ids are skipped, or the
\* description is fetched twice or a name is listed twice, the steps of the
\* two callers were interleaved.  The interleaving in which both requests
\* carry the id 2, the description is fetched twice and every name is
\* listed twice is the state C18_Witness.
C18_UnsafeWhenShared ==
    /\ (\/ \E i \in 1..Len(sent) : sent[i] # i
        \/ fetches > 1
        \/ populated > 1
        \/ Cardinality(Range(proxy_methods)) # Len(proxy_methods))
       => ~Serial
    /\ \A i \in 1..Len(sent) : sent[i] \in 1..call_id
    /\ call_id <= Cardinality({c \in Callers :
                                  callers[c].pc \in {"stored", "built", "done"}})

\* both callers are done: both requests carried the id 2, no request the
\* id 1, the description was fetched twice and every name is cached twice
C18_Witness ==
    /\ AllDone
    /\ sent = <<2, 2>>
    /\ call_id = 2
    /\ fetches = 2
    /\ \A n \in DOMAIN methods : Listed(n) = 2
    /\ ~Serial
====
